---- MODULE Spec2Model ----
(***************************************************************************)
(* A model of github.com/zanicar/stegano/png (png/png.go): the header      *)
(* coder built by initHCoder, headerBytes, and the per-cell walks of       *)
(* Conceal and Reveal over the RGB channels of an image.                   *)
(*                                                                         *)
(* Go's int is 64 bits wide and content lengths reach 2^32, which is       *)
(* beyond the integers TLC evaluates.  Every value that can be that large  *)
(* (dlen, clen) is therefore held as its base-256 digits, least            *)
(* significant first, in a tuple of BigLen digits ("Big").                 *)
(***************************************************************************)
EXTENDS Integers, Sequences, FiniteSets, TLC

VARIABLES
    hcoder,     \* SteganoPNG.hcoder: the four class member lists
    hmap,       \* SteganoPNG.hmap: value -> class index
    pc,         \* which call is running
    sourceImg,  \* the decoded carrier: its bounds W, H and its pixels Pix
    data,       \* the caller's payload slice
    enc,        \* the locals of Conceal
    outputImg,  \* Conceal's outputImg: its bounds W, H and its pixels Pix
    dec,        \* the locals of Reveal
    hb          \* a call of headerBytes on its own and the decoding of its result

vars == <<hcoder, hmap, pc, sourceImg, data, enc, outputImg, dec, hb>>

----------------------------------------------------------------------------
(* Bytes and bits *)

Byte == 0..255

Min(a, b) == IF a < b THEN a ELSE b
Max(a, b) == IF a > b THEN a ELSE b

\* v & (1 << i), for a byte v
AndBit(v, i) == ((v \div (2^i)) % 2) * (2^i)

RECURSIVE Or8(_, _, _)
\* a | b over n bits
Or8(a, b, n) ==
    IF n = 0 THEN 0
    ELSE (IF a % 2 = 1 \/ b % 2 = 1 THEN 1 ELSE 0) + 2 * Or8(a \div 2, b \div 2, n - 1)

RECURSIVE AndNot8(_, _, _)
\* a &^ b over n bits
AndNot8(a, b, n) ==
    IF n = 0 THEN 0
    ELSE (IF a % 2 = 1 /\ b % 2 = 0 THEN 1 ELSE 0) + 2 * AndNot8(a \div 2, b \div 2, n - 1)

\* uint8(v): truncation to 8 bits
Uint8(v) == v % 256

----------------------------------------------------------------------------
(* Go ints beyond TLC's range, as base-256 digits, least significant first *)

BigLen == 5

Big == [1..BigLen -> Byte]

RECURSIVE ToBigFrom(_, _)
ToBigFrom(n, k) == IF k = 0 THEN <<>> ELSE <<n % 256>> \o ToBigFrom(n \div 256, k - 1)

\* the digits of a small non-negative integer
ToBig(n) == ToBigFrom(n, BigLen)

\* 2^(8*j) as digits, j < BigLen
BigPow256(j) == [i \in 1..BigLen |-> IF i = j + 1 THEN 1 ELSE 0]

\* index of the most significant non-zero digit, 0 for the value zero
TopDigit(d) ==
    IF \A i \in 1..BigLen : d[i] = 0 THEN 0
    ELSE CHOOSE i \in 1..BigLen : d[i] # 0 /\ \A j \in (i+1)..BigLen : d[j] = 0

\* a < b
BigLT(a, b) ==
    \E i \in 1..BigLen : a[i] < b[i] /\ \A j \in (i+1)..BigLen : a[j] = b[j]

\* a > b
BigGT(a, b) == BigLT(b, a)

\* l & 255
BigLow(l) == l[1]

\* l >> 8
BigShr8(l) == [i \in 1..BigLen |-> IF i < BigLen THEN l[i+1] ELSE 0]

\* the value fits TLC's integers (below 2^24)
BigIsSmall(d) == \A i \in 4..BigLen : d[i] = 0

\* the integer value of a small Big
BigToInt(d) == d[1] + 256 * d[2] + 65536 * d[3]

RECURSIVE BitLen8(_)
\* number of binary digits of a byte without leading zeros, 0 for 0
BitLen8(v) == IF v = 0 THEN 0 ELSE 1 + BitLen8(v \div 2)

\* len(fmt.Sprintf("%08b", dlen)): the binary digits, zero padded to width 8
BinaryWidth08(d) ==
    LET t == TopDigit(d)
        n == IF t = 0 THEN 0 ELSE 8 * (t - 1) + BitLen8(d[t])
    IN  Max(8, n)

----------------------------------------------------------------------------
(* CalculateCapacity, png.go:29 *)

\* mutant: the bits are not divided into bytes
CalculateCapacityNoDiv(w, h, channels, bitsPerByte) ==
    w * h * channels * bitsPerByte

CalculateCapacity(w, h, channels, bitsPerByte) ==
    (w * h * channels * bitsPerByte) \div 8

----------------------------------------------------------------------------
(* initHCoder, png.go:51 *)

\* mutant: the guards i/4 > 0, ... are missing, so 0 joins class 3
HCoderCaseNoZeroGuard(i) ==
    IF i % 4 = 0 THEN 3
    ELSE IF i % 3 = 0 THEN 2
    ELSE IF i % 2 = 0 THEN 1
    ELSE 0

\* the case of the switch that value i takes, 4 when it takes none
HCoderCase(i) ==
    IF i % 4 = 0 /\ i \div 4 > 0 THEN 3
    ELSE IF i % 3 = 0 /\ i \div 3 > 0 THEN 2
    ELSE IF i % 2 = 0 /\ i \div 2 > 0 THEN 1
    ELSE IF i % 1 = 0 /\ i \div 1 > 0 THEN 0
    ELSE 4

\* what one pass of the loop body appends and assigns for value i
HCoderPass(i) ==
    LET c == HCoderCase(i)
    IN  [hcoder |-> [k \in 0..3 |-> IF k = c THEN <<Uint8(i)>> ELSE <<>>],
         hmap   |-> [v \in (IF c = 4 THEN {} ELSE {Uint8(i)}) |-> c]]

\* the passes s followed by the passes t: appends in order, later assignments win
HCoderThen(s, t) ==
    [hcoder |-> [k \in 0..3 |-> s.hcoder[k] \o t.hcoder[k]],
     hmap   |-> [v \in (DOMAIN s.hmap) \cup (DOMAIN t.hmap) |->
                   IF v \in DOMAIN t.hmap THEN t.hmap[v] ELSE s.hmap[v]]]

RECURSIVE HCoderLoop(_, _)
\* the passes for i = lo, lo+1, ..., hi in this order (the range is halved
\* to keep the evaluation shallow)
HCoderLoop(lo, hi) ==
    IF lo = hi THEN HCoderPass(lo)
    ELSE LET mid == (lo + hi) \div 2
         IN  HCoderThen(HCoderLoop(lo, mid), HCoderLoop(mid + 1, hi))

\* the receiver after initHCoder: four empty lists and an empty map, then
\* the loop for i := 0; i < 256; i++
initHCoder == HCoderLoop(0, 255)

\* s.hmap[b]: a Go map read, the zero value for a missing key
HMapGet(m, b) == IF b \in DOMAIN m THEN m[b] ELSE 0

----------------------------------------------------------------------------
(* headerBytes, png.go:81 *)

\* a Big from its leading digits
FromDigits(ds) == [i \in 1..BigLen |-> IF i <= Len(ds) THEN ds[i] ELSE 0]

\* int(math.Pow(2, 8*j))
Pow2_8(j) == BigPow256(j)

\* mutant: bitcount / 8 is not rounded up
BytecountNoRoundUp(dlen) == BinaryWidth08(dlen) \div 8

\* bytecount: bitcount / 8, one more when bitcount % 8 > 0
Bytecount(dlen) ==
    LET bitcount == BinaryWidth08(dlen)
    IN  (bitcount \div 8) + (IF bitcount % 8 > 0 THEN 1 ELSE 0)

\* mutant: l is never shifted, every byte is the low byte
LengthBytesNoShift(l, n) == [i \in 1..n |-> Uint8(BigLow(l))]

RECURSIVE LengthBytes(_, _)
\* the loop filling b: b[bi] |= uint8(l & 255); l = l >> 8
LengthBytes(l, n) ==
    IF n = 0 THEN <<>>
    ELSE <<Uint8(BigLow(l))>> \o LengthBytes(BigShr8(l), n - 1)

\* mutant: the cases compare with <= instead of <
HeaderCaseInclusive(dlen) ==
    IF ~BigGT(dlen, Pow2_8(1)) THEN 0
    ELSE IF ~BigGT(dlen, Pow2_8(2)) THEN 1
    ELSE IF ~BigGT(dlen, Pow2_8(3)) THEN 2
    ELSE IF ~BigGT(dlen, Pow2_8(4)) THEN 3
    ELSE 4

\* the case the switch on dlen takes: the index into hcoder, 4 when no case matches
HeaderCase(dlen) ==
    IF BigLT(dlen, Pow2_8(1)) THEN 0
    ELSE IF BigLT(dlen, Pow2_8(2)) THEN 1
    ELSE IF BigLT(dlen, Pow2_8(3)) THEN 2
    ELSE IF BigLT(dlen, Pow2_8(4)) THEN 3
    ELSE 4

\* dlen > max, max := int(math.Pow(2, 32))
ExceedsMax(dlen) == BigGT(dlen, Pow2_8(4))

\* the values r.Intn(n) can return
Intn(n) == 0..(n - 1)

\* headerBytes(dlen) when the random source returns ri: the slice and the error
headerBytes(hc, dlen, ri) ==
    IF ExceedsMax(dlen) THEN [b |-> <<>>, err |-> "ErrCapacityMax"]
    ELSE LET b == LengthBytes(dlen, Bytecount(dlen))
             c == HeaderCase(dlen)
         IN  [b   |-> IF c = 4 THEN b ELSE <<hc[c][ri + 1]>> \o b,
              err |-> "nil"]

\* the random indices headerBytes can draw for dlen (one dummy draw when no case matches)
HeaderDraws(hc, dlen) ==
    IF HeaderCase(dlen) = 4 THEN {0} ELSE Intn(Len(hc[HeaderCase(dlen)]))

----------------------------------------------------------------------------
(* The header decoding of Reveal, png.go:305-331 *)

\* len(hdata) after hdata = make([]byte, s.hmap[dbyte]+1+1)
HeaderLen(m, dbyte) == HMapGet(m, dbyte) + 1 + 1

RECURSIVE ClenByte(_, _)
\* the inner loop over ii: the bits tbit of one byte of cld or-ed together
ClenByte(v, ii) ==
    IF ii = 8 THEN 0 ELSE Or8(AndBit(v, ii), ClenByte(v, ii + 1), 8)

\* clen after the loop over cld := hdata[1:]; byte i lands at bits 8i..8i+7
ContentLength(hdata) ==
    [i \in 1..BigLen |-> IF i + 1 <= Len(hdata) THEN ClenByte(hdata[i + 1], 0) ELSE 0]

----------------------------------------------------------------------------
(* Images and colours: image.Image.At(x, y).RGBA() and the normalisation   *)
(* to a byte, png.go:151-157 and 259-265.  An image is its bounds, W by H   *)
(* from (0, 0) as every decoded image has them, and its pixels Pix in      *)
(* raster order with their non-premultiplied 8-bit <<R, G, B, A>> values,  *)
(* as image.NRGBA holds them (a fully opaque image.RGBA holds the same).   *)

\* color.NRGBA.RGBA(): 16-bit alpha-premultiplied <<r, g, b, a>>
RGBA(c) ==
    <<((c[1] * 257) * c[4]) \div 255,
      ((c[2] * 257) * c[4]) \div 255,
      ((c[3] * 257) * c[4]) \div 255,
      c[4] * 257>>

\* img.At(x, y)
At(img, x, y) == img.Pix[y * img.W + x + 1]

\* img.Set(x, y, c), c a color.NRGBA
Set(img, x, y, c) == [img EXCEPT !.Pix[y * img.W + x + 1] = c]

\* px[0], px[1], px[2] = uint8(r / 256), uint8(g / 256), uint8(b / 256)
NormalizedPx(c) ==
    LET q == RGBA(c)
    IN  <<Uint8(q[1] \div 256), Uint8(q[2] \div 256), Uint8(q[3] \div 256)>>

\* uint8(a / 256)
NormalizedAlpha(c) == Uint8(RGBA(c)[4] \div 256)

\* image.NewNRGBA(image.Rect(0, 0, w, h)): every pixel zero
NewNRGBA(w, h) == [W |-> w, H |-> h, Pix |-> [i \in 1..(w * h) |-> <<0, 0, 0, 0>>]]

\* no image
NoImage == [W |-> 0, H |-> 0, Pix |-> <<>>]

----------------------------------------------------------------------------
(* Integer arithmetic of Go: / and % truncate toward zero *)

Abs(a) == IF a < 0 THEN -a ELSE a
Sign(a) == IF a < 0 THEN -1 ELSE 1

GoDiv(a, b) == Sign(a) * Sign(b) * (Abs(a) \div Abs(b))
GoMod(a, b) == Sign(a) * (Abs(a) % Abs(b))

\* What int(f) can give for f = a/0, that is +Inf (a > 0), NaN (a = 0) or
\* -Inf (a < 0): the Go specification leaves the result to the
\* implementation.  amd64 gives the most negative int for all three; arm64
\* saturates, giving the most positive int for +Inf and 0 for NaN.  Only the
\* sign and whether the magnitude exceeds every cell index matter to the
\* walks, so the extreme ints are held as -(2^30) and 2^30.
FloatToIntUndefined(a) ==
    IF a > 0 THEN {-(2^30), 2^30}
    ELSE IF a = 0 THEN {-(2^30), 0, 2^30}
    ELSE {-(2^30)}

\* mutant: the quotient without the factor 4
StepValuesNoScale(a, n) ==
    IF TopDigit(n) = 0 THEN FloatToIntUndefined(a)
    ELSE IF ~BigIsSmall(n) THEN {0}
    ELSE {GoDiv(a, BigToInt(n))}

\* the values of int(float64(a) / float64(n) * 4), n given as a Big;
\* a stays far below 2^22, so the quotient by an n of 2^24 or more is below 1
StepValues(a, n) ==
    IF TopDigit(n) = 0 THEN FloatToIntUndefined(a)
    ELSE IF ~BigIsSmall(n) THEN {0}
    ELSE {GoDiv(4 * a, BigToInt(n))}

----------------------------------------------------------------------------
(* Bounds and inputs *)

MaxW == 3
MaxH == 3
MaxLen == 4

\* carrier pixels <<R, G, B, A>>: two opaque colours and a translucent one
PixelValues == {<<131, 25, 25, 255>>, <<0, 0, 0, 255>>, <<235, 125, 70, 128>>}

\* a carrier of w by h pixels: the values p and q alternate in raster order
Carrier(p, q, w, h) ==
    [W |-> w, H |-> h, Pix |-> [i \in 1..(w * h) |-> IF i % 2 = 1 THEN p ELSE q]]

PayloadBytes == {65, 228}
Payloads == UNION {[1..n -> PayloadBytes] : n \in 0..MaxLen}

\* the draws of r.Intn(n) the walks are run with: first, middle and last
SampledIntn(n) == {0, n \div 2, n - 1}

\* the locals of Conceal and of Reveal before the call
NoEnc == [width |-> 0, height |-> 0, hdata |-> <<>>, cap |-> 0, step |-> 0,
          x |-> 0, y |-> 0, ci |-> 0, px |-> <<0, 0, 0>>, err |-> "nil"]
NoDec == [from |-> "none", img |-> NoImage, width |-> 0, height |-> 0,
          cap |-> 0, dbyte |-> 0, hdata |-> <<>>,
          data |-> <<>>, dataNil |-> TRUE, step |-> 0, clen |-> ToBig(0),
          x |-> 0, y |-> 0, ci |-> 0, px |-> <<0, 0, 0>>,
          out |-> [len |-> ToBig(0), bytes |-> <<>>], err |-> "nil"]
NoHb == [pc |-> "none", dlen |-> ToBig(0), b |-> <<>>, err |-> "nil",
         hdata |-> <<>>, clen |-> ToBig(0)]

----------------------------------------------------------------------------
(* New, png.go:40, and the carrier the calls are given *)

New ==
    /\ hcoder = initHCoder.hcoder
    /\ hmap = initHCoder.hmap

Init ==
    /\ New
    /\ pc = "start"
    /\ \E w \in 1..MaxW, h \in 1..MaxH, p \in PixelValues, q \in PixelValues :
         sourceImg = Carrier(p, q, w, h)
    /\ data = <<>>
    /\ enc = NoEnc
    /\ outputImg = NoImage
    /\ dec = NoDec
    /\ hb = NoHb

----------------------------------------------------------------------------
(* Conceal, png.go:123 *)

\* mutant: the second pass uses the mask 1 << (ebi + 1) = 4
ConcealBitsWideMask(v, b, sbi) ==
    LET v0 == IF AndBit(b, sbi + 0) = 0 THEN AndNot8(v, 1, 8) ELSE Or8(v, 1, 8)
        v1 == IF AndBit(b, sbi + 1) = 0 THEN AndNot8(v0, 4, 8) ELSE Or8(v0, 4, 8)
    IN  v1

\* the two passes of the loop over ebi on px[ci] = v, for the data byte b
\* and start bit sbi: bit 0 is set or cleared with mask 1, bit 1 with mask 2
ConcealBits(v, b, sbi) ==
    LET v0 == IF AndBit(b, sbi + 0) = 0 THEN AndNot8(v, Uint8(0 + 1), 8)
                                        ELSE Or8(v, Uint8(0 + 1), 8)
        v1 == IF AndBit(b, sbi + 1) = 0 THEN AndNot8(v0, Uint8(1 + 1), 8)
                                        ELSE Or8(v0, Uint8(1 + 1), 8)
    IN  v1

\* the header region test: abi < len(hdata)*4
InHeader(abi, hdata) == abi < Len(hdata) * 4

\* dbi and sbi of an available encoding byte
HeaderDbi(abi) == abi \div 4
HeaderSbi(abi) == (abi % 4) * 2
\* mutant: the content bytes taken at stride 4 like the header bytes
ContentDbiStride4(abi, hdata, step) == GoDiv(abi - Len(hdata) * 4, 4)
ContentDbi(abi, hdata, step) == GoDiv(abi - Len(hdata) * 4, step)
\* mutant: the chunk offset taken modulo 4, so that the cells of the gap are
\* written as well
ContentSbiMod4(abi, hdata, step) == GoMod(abi - Len(hdata) * 4, 4) * 2
ContentSbi(abi, hdata, step) == GoMod(abi - Len(hdata) * 4, step) * 2

\* lines 123-147: decode, header, capacity check, step, the empty output image
ConcealCall ==
    /\ pc = "start"
    /\ \E payload \in Payloads :
       \E ri \in SampledIntn(Len(hcoder[HeaderCase(ToBig(Len(payload)))])) :
         LET width  == sourceImg.W - 0
             height == sourceImg.H - 0
             h   == headerBytes(hcoder, ToBig(Len(payload)), ri)
             cap == CalculateCapacity(width, height, 3, 2)
         IN  /\ data' = payload
             /\ IF h.err # "nil"
                  THEN /\ pc' = "failed"
                       /\ enc' = [enc EXCEPT !.width = width, !.height = height,
                                             !.err = h.err]
                       /\ UNCHANGED outputImg
                ELSE IF Len(payload) > cap - Len(h.b)
                  THEN /\ pc' = "failed"
                       /\ enc' = [enc EXCEPT !.width = width, !.height = height,
                                             !.hdata = h.b, !.cap = cap,
                                             !.err = "ErrCapacityOverflow"]
                       /\ UNCHANGED outputImg
                ELSE \E step \in StepValues(cap - Len(h.b), ToBig(Len(payload))) :
                       /\ pc' = "conceal"
                       /\ enc' = [enc EXCEPT !.width = width, !.height = height,
                                             !.hdata = h.b, !.cap = cap, !.step = step]
                       /\ outputImg' = NewNRGBA(width, height)
    /\ UNCHANGED <<hcoder, hmap, sourceImg, dec, hb>>

\* one pass of the loop over ci (lines 162-212) on the locals and the output;
\* the pixel is read before the first channel (151-157) and set after the
\* last (214-219); after the last pixel the image is encoded and Conceal
\* returns nil (223-228)
ConcealCellWalk ==
    /\ pc = "conceal"
    /\ LET x   == enc.x
           y   == enc.y
           ci  == enc.ci
           c   == At(sourceImg, x, y)
           px  == IF ci = 0 THEN NormalizedPx(c) ELSE enc.px
           pxi == x + (y * enc.width)
           abi == pxi * 3 + ci
           hd  == InHeader(abi, enc.hdata)
       IN  IF ~hd /\ enc.step = 0
             THEN \* integer divide by zero
                  /\ pc' = "panic"
                  /\ enc' = [enc EXCEPT !.err = "panic"]
                  /\ UNCHANGED outputImg
           ELSE
             LET dbi == IF hd THEN HeaderDbi(abi) ELSE ContentDbi(abi, enc.hdata, enc.step)
                 sbi == IF hd THEN HeaderSbi(abi) ELSE ContentSbi(abi, enc.hdata, enc.step)
                 v   == IF sbi < 8 /\ dbi < Len(data)
                          THEN ConcealBits(px[ci + 1],
                                   IF hd THEN enc.hdata[dbi + 1] ELSE data[dbi + 1], sbi)
                          ELSE px[ci + 1]
                 px1 == [px EXCEPT ![ci + 1] = v]
                 lastx == x + 1 = enc.width
                 lasty == y + 1 = enc.height
             IN  /\ enc' = [enc EXCEPT !.px = px1,
                                       !.ci = (ci + 1) % 3,
                                       !.x = IF ci < 2 THEN x ELSE IF lastx THEN 0 ELSE x + 1,
                                       !.y = IF ci = 2 /\ lastx THEN y + 1 ELSE y]
                 /\ outputImg' =
                      IF ci = 2
                        THEN Set(outputImg, x, y,
                                 <<px1[1], px1[2], px1[3], NormalizedAlpha(c)>>)
                        ELSE outputImg
                 /\ pc' = IF ci = 2 /\ lastx /\ lasty THEN "concealed" ELSE "conceal"

\* mutant: the pass consumes the payload in place, shifting data[0] right by
\* the two bits it has just taken
ConcealCellShiftsData ==
    /\ ConcealCellWalk
    /\ data' = IF data = <<>> THEN data ELSE [data EXCEPT ![1] = @ \div 4]
    /\ UNCHANGED <<hcoder, hmap, sourceImg, dec, hb>>

\* the pass as a step: data is only ever read (193), the receiver and the
\* source image are not assigned
ConcealCell ==
    /\ ConcealCellWalk
    /\ UNCHANGED <<hcoder, hmap, sourceImg, data, dec, hb>>

----------------------------------------------------------------------------
(* Reveal, png.go:236 *)

\* The slice data = make([]byte, clen) is held by its first bytes, as many as
\* the image has cells (no index beyond that is ever stored to), with its
\* length in clen.

NumCells(w, h) == w * h * 3

\* the bytes of a buffer of length n that are held
HeldLen(n, w, h) == IF BigIsSmall(n) THEN Min(BigToInt(n), NumCells(w, h)) ELSE NumCells(w, h)

\* make([]byte, n): zero filled
MakeBytes(n) == [i \in 1..n |-> 0]

\* dbi < len(data) for a dbi below 2^24
\* mutant: no comparison of dbi with len(data)
BelowLenAlways(dbi, n) == TRUE

BelowLen(dbi, n) == IF BigIsSmall(n) THEN dbi < BigToInt(n) ELSE TRUE

\* the two passes of the loop over ebi on dbyte: or in the bits of px[ci] = v
RevealBits(dbyte, v, sbi) ==
    LET bit0 == Uint8(AndBit(v, 0) * (2^(((sbi + 0) \div 2) * 2)))
        d0   == Or8(dbyte, bit0, 8)
        bit1 == Uint8(AndBit(v, 1) * (2^(((sbi + 1) \div 2) * 2)))
        d1   == Or8(d0, bit1, 8)
    IN  d1

\* lines 236-256: decode the image, compute cap, initialise the locals
RevealCall ==
    /\ pc \in {"start", "concealed"}
    /\ LET img    == IF pc = "start" THEN sourceImg ELSE outputImg
           width  == img.W - 0
           height == img.H - 0
       IN  dec' = [NoDec EXCEPT
                     !.from = IF pc = "start" THEN "carrier" ELSE "steganogram",
                     !.img = img, !.width = width, !.height = height,
                     !.cap = CalculateCapacity(width, height, 3, 2),
                     !.step = 4]
    /\ pc' = "reveal"
    /\ UNCHANGED <<hcoder, hmap, sourceImg, data, enc, outputImg, hb>>

\* one pass of the loop over ci (lines 270-342); the pixel is read before the
\* first channel (259-265); after the last pixel data is written to w (346-352)
RevealCell ==
    /\ pc = "reveal"
    /\ LET x   == dec.x
           y   == dec.y
           ci  == dec.ci
           px  == IF ci = 0 THEN NormalizedPx(At(dec.img, x, y)) ELSE dec.px
           pxi == x + (y * dec.width)
           abi == pxi * 3 + ci
           hd  == dec.hdata = <<>> \/ InHeader(abi, dec.hdata)
       IN  IF ~hd /\ dec.step = 0
             THEN \* integer divide by zero
                  /\ pc' = "panic"
                  /\ dec' = [dec EXCEPT !.err = "panic"]
           ELSE
             LET dbi == IF hd THEN HeaderDbi(abi) ELSE ContentDbi(abi, dec.hdata, dec.step)
                 sbi == IF hd THEN HeaderSbi(abi) ELSE ContentSbi(abi, dec.hdata, dec.step)
                 act == sbi < 8 /\ (dec.dataNil \/ BelowLen(dbi, dec.clen))
                 dbyte == IF act THEN RevealBits(dec.dbyte, px[ci + 1], sbi) ELSE dec.dbyte
                 full  == act /\ sbi + 1 = 7
                 \* lines 306-331, the header byte dbi is complete
                 hdata0 == IF dbi = 0 THEN MakeBytes(HeaderLen(hmap, dbyte)) ELSE dec.hdata
                 hdata1 == [hdata0 EXCEPT ![dbi + 1] = dbyte]
                 hlast  == dbi = Len(hdata1) - 1
                 clen   == ContentLength(hdata1)
                 lastx == x + 1 = dec.width
                 lasty == y + 1 = dec.height
                 done  == ci = 2 /\ lastx /\ lasty
                 walk  == [dec EXCEPT !.px = px,
                                      !.ci = (ci + 1) % 3,
                                      !.x = IF ci < 2 THEN x ELSE IF lastx THEN 0 ELSE x + 1,
                                      !.y = IF ci = 2 /\ lastx THEN y + 1 ELSE y]
                 finish(d) == IF done
                                THEN [d EXCEPT !.out = [len |-> d.clen, bytes |-> d.data]]
                                ELSE d
             IN  /\ pc' = IF done THEN "revealed" ELSE "reveal"
                 /\ IF ~full
                      THEN dec' = finish([walk EXCEPT !.dbyte = dbyte])
                    ELSE IF hd /\ ~hlast
                      THEN dec' = finish([walk EXCEPT !.dbyte = 0, !.hdata = hdata1])
                    ELSE IF hd
                      THEN \E step \in StepValues(dec.cap - Len(hdata1), clen) :
                             dec' = finish([walk EXCEPT
                                       !.dbyte = 0, !.hdata = hdata1, !.clen = clen,
                                       !.data = MakeBytes(HeldLen(clen, dec.width, dec.height)),
                                       !.dataNil = FALSE,
                                       !.step = step])
                    ELSE dec' = finish([walk EXCEPT !.dbyte = 0,
                                                    !.data = [dec.data EXCEPT ![dbi + 1] = dbyte]])
    /\ UNCHANGED <<hcoder, hmap, sourceImg, data, enc, outputImg, hb>>

----------------------------------------------------------------------------

Next == ConcealCall \/ ConcealCell \/ RevealCall \/ RevealCell

Spec == Init /\ [][Next]_vars

----------------------------------------------------------------------------
(* headerBytes on its own, for content lengths up to 2^32 and beyond, and   *)
(* the header decoding of Reveal applied to the bytes it returns            *)

\* the content lengths tried: around every boundary of the byte count
HeaderLengths ==
    {FromDigits(ds) : ds \in
        {<<0>>, <<1>>, <<65>>, <<255>>,
         <<0, 1>>, <<1, 1>>, <<255, 255>>,
         <<0, 0, 1>>, <<57, 48, 2>>, <<255, 255, 255>>,
         <<0, 0, 0, 1>>, <<1, 2, 3, 4>>, <<255, 255, 255, 255>>,
         <<0, 0, 0, 0, 1>>, <<1, 0, 0, 0, 1>>, <<0, 0, 0, 0, 2>>}}

HInit ==
    /\ New
    /\ pc = "header"
    /\ sourceImg = NoImage
    /\ data = <<>>
    /\ enc = NoEnc
    /\ outputImg = NoImage
    /\ dec = NoDec
    /\ \E dlen \in HeaderLengths : hb = [NoHb EXCEPT !.pc = "call", !.dlen = dlen]

\* headerBytes(dlen), any draw of the random source
HeaderBytesCall ==
    /\ hb.pc = "call"
    /\ \E ri \in HeaderDraws(hcoder, hb.dlen) :
         LET h == headerBytes(hcoder, hb.dlen, ri)
         IN  hb' = [hb EXCEPT !.pc = "returned", !.b = h.b, !.err = h.err]
    /\ UNCHANGED <<hcoder, hmap, pc, sourceImg, data, enc, outputImg, dec>>

\* lines 305-331 of Reveal on the bytes b as they complete one after the
\* other: the first sizes hdata, each is stored, the last gives clen
HeaderDecode ==
    /\ hb.pc = "returned"
    /\ hb.err = "nil"
    /\ LET n     == HeaderLen(hmap, hb.b[1])
           hdata == [i \in 1..n |-> hb.b[i]]
       IN  /\ n <= Len(hb.b)
           /\ hb' = [hb EXCEPT !.pc = "decoded", !.hdata = hdata,
                               !.clen = ContentLength(hdata)]
    /\ UNCHANGED <<hcoder, hmap, pc, sourceImg, data, enc, outputImg, dec>>

HNext == HeaderBytesCall \/ HeaderDecode

HSpec == HInit /\ [][HNext]_vars

----------------------------------------------------------------------------
(* Claims *)

\* every pixel of the image is fully opaque
Opaque(img) == \A i \in 1..Len(img.Pix) : img.Pix[i][4] = 255

\* Reveal of Conceal's output has ended, by returning or by a panic
RevealOfConcealEnded == dec.from = "steganogram" /\ pc \in {"revealed", "panic"}

\* Reveal returned nil after writing exactly the bytes p
Revealed(p) ==
    /\ pc = "revealed"
    /\ dec.err = "nil"
    /\ dec.out = [len |-> ToBig(Len(p)), bytes |-> p]

\* C1: for every carrier of W x H pixels with W, H >= 2 and every non-empty
\* payload that Conceal accepts, whatever index byte is drawn, Reveal of
\* Conceal's output writes exactly the payload.
C1_RoundTrip ==
    (RevealOfConcealEnded /\ sourceImg.W >= 2 /\ sourceImg.H >= 2 /\ Len(data) >= 1)
        => Revealed(data)

\* What the code does give: the round trip for opaque carriers and payloads
\* of at least as many bytes as the header (two or more bytes here).
RoundTripOpaqueLong ==
    (RevealOfConcealEnded /\ Opaque(sourceImg) /\ Len(data) >= Len(enc.hdata))
        => Revealed(data)

\* position of the walk of Conceal: the cells below it have been processed
EncAbi == (enc.x + enc.y * enc.width) * 3 + enc.ci

\* position of the walk of Reveal
DecAbi == (dec.x + dec.y * dec.width) * 3 + dec.ci

\* C2: a carrier of 2 x 2 pixels, whatever its channel values, conceals a
\* payload of one byte without overflow and Reveal writes that byte.
C2_MinimumCarrier ==
    /\ (pc = "failed" /\ sourceImg.W = 2 /\ sourceImg.H = 2 /\ Len(data) = 1)
           => enc.err # "ErrCapacityOverflow"
    /\ (RevealOfConcealEnded /\ sourceImg.W = 2 /\ sourceImg.H = 2 /\ Len(data) = 1)
           => Revealed(data)

\* Conceal has passed its capacity check or returned from it
ConcealChecked == pc \in {"failed", "conceal", "concealed"} /\ enc.err # "ErrCapacityMax"

\* the byte count the header of a payload of n bytes has (n below 2^24)
HeaderLenFor(n) == IF n < 256 THEN 2 ELSE IF n < 65536 THEN 3 ELSE 4

\* C3: Conceal fails with ErrCapacityOverflow exactly when len(P) exceeds
\* capacity(W, H) less the length of the header for len(P).
C3_CapacityBoundary ==
    ConcealChecked =>
        ((pc = "failed" /\ enc.err = "ErrCapacityOverflow")
            <=> Len(data) > ((sourceImg.W * sourceImg.H * 6) \div 8) - HeaderLenFor(Len(data)))

C3_Witness ==
    /\ pc = "failed" /\ enc.err = "ErrCapacityOverflow"
    /\ sourceImg.W = 2 /\ sourceImg.H = 2 /\ Len(data) = 2

\* C4: for every length below 2^32 and every index byte drawn, decoding the
\* header that headerBytes returns gives that length back.
C4_HeaderRoundTrip ==
    (hb.pc = "decoded" /\ BigLT(hb.dlen, BigPow256(4))) => hb.clen = hb.dlen

C4_Witness ==
    hb.pc = "decoded" /\ hb.dlen = FromDigits(<<1, 2, 3, 4>>) /\ hb.clen = hb.dlen

\* C5 as stated: the headers of the lengths 0, 255, 256, 65535, 65536,
\* 16777215 and 16777216 have 1 + (1, 2, 2, 3, 3, 4, 4) bytes, that is
\* 2, 3, 3, 4, 4, 5 and 5.
C5_TableAsStated ==
    {<<FromDigits(<<0>>), 2>>, <<FromDigits(<<255>>), 3>>,
     <<FromDigits(<<0, 1>>), 3>>, <<FromDigits(<<255, 255>>), 4>>,
     <<FromDigits(<<0, 0, 1>>), 4>>, <<FromDigits(<<255, 255, 255>>), 5>>,
     <<FromDigits(<<0, 0, 0, 1>>), 5>>}

C5_HeaderByteCountsAsStated ==
    hb.pc \in {"returned", "decoded"} =>
        \A e \in C5_TableAsStated : hb.dlen = e[1] => (hb.err = "nil" /\ Len(hb.b) = e[2])

\* C5 amended: the headers of the lengths 0, 255, 256, 65535, 65536,
\* 16777215 and 16777216 have 1 + (1, 1, 2, 2, 3, 3, 4) bytes, that is
\* 2, 2, 3, 3, 4, 4 and 5: the byte count steps up at 256, 65536, 16777216.
C5_Table ==
    {<<FromDigits(<<0>>), 2>>, <<FromDigits(<<255>>), 2>>,
     <<FromDigits(<<0, 1>>), 3>>, <<FromDigits(<<255, 255>>), 3>>,
     <<FromDigits(<<0, 0, 1>>), 4>>, <<FromDigits(<<255, 255, 255>>), 4>>,
     <<FromDigits(<<0, 0, 0, 1>>), 5>>}

C5_HeaderByteCounts ==
    hb.pc \in {"returned", "decoded"} =>
        \A e \in C5_Table : hb.dlen = e[1] => (hb.err = "nil" /\ Len(hb.b) = e[2])

C5_Witness ==
    hb.pc = "returned" /\ hb.dlen = FromDigits(<<255>>) /\ Len(hb.b) = 2

\* the minimal byte count of a length below 2^32
MinimalBytes(d) == IF TopDigit(d) = 0 THEN 1 ELSE TopDigit(d)

\* the members of class k by the rule of divisibility: 4 first, then 3, then 2
ClassByRule(k) ==
    {v \in 1..255 :
        k = (IF v % 4 = 0 THEN 3 ELSE IF v % 3 = 0 THEN 2 ELSE IF v % 2 = 0 THEN 1 ELSE 0)}

\* C6: for every length L below 2^32 headerBytes returns k+1 bytes, k the
\* minimal byte count of L; byte 0 is a non-zero member of class k-1 and
\* bytes 1..k are L, least significant byte first.
C6_HeaderLayout ==
    (hb.pc \in {"returned", "decoded"} /\ BigLT(hb.dlen, BigPow256(4))) =>
        LET k == MinimalBytes(hb.dlen)
        IN  /\ hb.err = "nil"
            /\ Len(hb.b) = k + 1
            /\ hb.b[1] # 0
            /\ hb.b[1] \in ClassByRule(k - 1)
            /\ \A i \in 1..k : hb.b[i + 1] = hb.dlen[i]

C6_Witness ==
    /\ hb.pc = "returned" /\ hb.dlen = FromDigits(<<57, 48, 2>>)
    /\ hb.b[1] = 255 /\ Len(hb.b) = 4 /\ hb.b[4] = 2

\* C7: headerBytes fails with ErrCapacityMax, returning no header, for
\* every length of 2^32 or more, and for no length below.
C7_MaxExceeded ==
    hb.pc \in {"returned", "decoded"} =>
        ((hb.err = "ErrCapacityMax" /\ hb.b = <<>>) <=> ~BigLT(hb.dlen, BigPow256(4)))

\* the members of a list
Members(l) == {l[i] : i \in 1..Len(l)}

\* C8: after construction the four classes are non-empty, pairwise disjoint
\* and together exactly 1..255, each value in the class the rule of
\* divisibility gives it, 0 in none; hmap sends every value of 1..255 to the
\* index of the list that holds it.
C8_Partition ==
    /\ \A k \in 0..3 : Members(hcoder[k]) # {} /\ Members(hcoder[k]) = ClassByRule(k)
    /\ \A k \in 0..3 : Cardinality(Members(hcoder[k])) = Len(hcoder[k])
    /\ \A j, k \in 0..3 : j # k => Members(hcoder[j]) \cap Members(hcoder[k]) = {}
    /\ UNION {Members(hcoder[k]) : k \in 0..3} = 1..255
    /\ DOMAIN hmap = 1..255
    /\ \A v \in 1..255 : v \in Members(hcoder[hmap[v]])

C8_Witness ==
    /\ hb.pc = "decoded"
    /\ hmap[255] = 2 /\ hmap[252] = 3 /\ hmap[254] = 1 /\ hmap[253] = 0
    /\ hcoder[3][1] = 4 /\ hcoder[2][1] = 3 /\ hcoder[1][1] = 2 /\ hcoder[0][1] = 1

\* the first header byte Reveal assembles from the first four cells of img
FirstByte(img) ==
    LET p0 == NormalizedPx(img.Pix[1])
        p1 == NormalizedPx(img.Pix[2])
    IN  RevealBits(RevealBits(RevealBits(RevealBits(0, p0[1], 0), p0[2], 2), p0[3], 4), p1[1], 6)

\* Reveal has read the first header byte
IndexByteRead == pc \in {"reveal", "revealed", "panic"} /\ DecAbi >= 4

\* C9: an index byte of 0 makes Reveal report an error and size no header;
\* every index byte of 1..255 gives a header of class index + 2 bytes.
C9_ZeroIndexRejected ==
    IndexByteRead =>
        IF FirstByte(dec.img) = 0
          THEN dec.err # "nil" /\ dec.hdata = <<>>
          ELSE Len(dec.hdata) = hmap[FirstByte(dec.img)] + 2

\* C10: when Conceal has succeeded the output has the bounds of the input,
\* every alpha is the normalised source alpha, and every R, G, B keeps the
\* upper six bits of the normalised source value, so differs from it by at
\* most 3.
C10_PixelFidelity ==
    pc = "concealed" =>
        /\ outputImg.W = sourceImg.W
        /\ outputImg.H = sourceImg.H
        /\ Len(outputImg.Pix) = Len(sourceImg.Pix)
        /\ \A i \in 1..Len(sourceImg.Pix) :
             /\ outputImg.Pix[i][4] = NormalizedAlpha(sourceImg.Pix[i])
             /\ \A ch \in 1..3 :
                  LET n == NormalizedPx(sourceImg.Pix[i])[ch]
                      o == outputImg.Pix[i][ch]
                  IN  o \div 4 = n \div 4 /\ Abs(o - n) <= 3

C10_Witness ==
    /\ pc = "concealed"
    /\ sourceImg.W = 3 /\ sourceImg.H = 2 /\ Len(data) = 2
    /\ \E i \in 1..Len(sourceImg.Pix) :
         Abs(outputImg.Pix[i][1] - NormalizedPx(sourceImg.Pix[i])[1]) = 3

\* Conceal has passed the capacity check (140) and so has evaluated the step
\* of line 143, whose divisor is float64(len(data))
ConcealWalking == pc \in {"conceal", "concealed"} \/ enc.err = "panic"

\* C11: from the call of Conceal on, no step of Conceal (nor any later step)
\* changes a byte of the caller's payload slice, on the walk and on every way
\* out of it, and the receiver's fields, the only place Conceal could keep a
\* reference in, are never assigned.
C11_PayloadUntouched ==
    [][pc # "start" => (data' = data /\ hcoder' = hcoder /\ hmap' = hmap)]_vars

C11_Witness ==
    /\ pc = "concealed" /\ Len(data) = 2
    /\ outputImg.Pix # [i \in 1..Len(sourceImg.Pix) |->
                           NormalizedPx(sourceImg.Pix[i]) \o <<NormalizedAlpha(sourceImg.Pix[i])>>]

\* Reveal has returned or has been left through a panic
RevealEnded == pc = "revealed" \/ dec.err = "panic"

\* the length read from the header asks for more payload bytes than the cells
\* after the header hold at four cells a byte
LengthBeyondCells ==
    /\ ~dec.dataNil
    /\ \/ ~BigIsSmall(dec.clen)
       \/ 4 * BigToInt(dec.clen) > NumCells(dec.width, dec.height) - 4 * Len(dec.hdata)

\* the image Reveal was given is malformed: index byte 0, or a length beyond
\* the cells
Malformed ==
    \/ IndexByteRead /\ FirstByte(dec.img) = 0
    \/ LengthBeyondCells

\* C12: Reveal on a malformed steganogram ends in an error of its own,
\* "invalid steganogram", and has written no payload byte.
C12_MalformedRejected ==
    (RevealEnded /\ Malformed) =>
        (dec.err = "ErrInvalidSteganogram" /\ dec.out = NoDec.out)

\* C13: the division by len(data) in the step of Conceal is never evaluated
\* with len(data) = 0: Conceal gets to line 143 with a non-empty payload only.
C13_ZeroLengthGuarded == ConcealWalking => Len(data) > 0

\* the channel value of cell abi = pixel index * 3 + channel of an image
Cell(img, abi) == img.Pix[(abi \div 3) + 1][(abi % 3) + 1]

\* bits [2c, 2c+1] of a byte
Chunk(b, c) == (b \div (4 ^ c)) % 4

\* header byte i lies in the two low bits of the cells 4i .. 4i+3 of the output
HeaderByteInPlace(i) ==
    \A c \in 0..3 : Cell(outputImg, 4 * i + c) % 4 = Chunk(enc.hdata[i + 1], c)

\* C14: when Conceal has succeeded, every header byte i of 0..header_len-1,
\* for payloads shorter than the header too, lies at stride 4: the two low bits
\* of cell 4i+c of the output are bits [2c, 2c+1] of header byte i.
C14_HeaderPlacement ==
    pc = "concealed" => \A i \in 0..(Len(enc.hdata) - 1) : HeaderByteInPlace(i)

\* what the code does place: the header bytes of index below len(data)
HeaderPlacementBelowLen ==
    pc = "concealed" =>
        \A i \in 0..(Len(enc.hdata) - 1) : i < Len(data) => HeaderByteInPlace(i)

\* the step of the claims for a payload of n >= 1 bytes in a carrier of w x h
\* pixels: floor(4 * (cap - header_len) / n)
StepFor(w, h, n) == (4 * (((w * h * 6) \div 8) - HeaderLenFor(n))) \div n

\* the cell of chunk c of payload byte j of a payload of n bytes
PayloadCell(w, h, n, j, c) == HeaderLenFor(n) * 4 + j * StepFor(w, h, n) + c

\* C15: after a successful Conceal of a non-empty payload, the two low bits of
\* cell header_len*4 + j*step + c of the output are bits [2c, 2c+1] of payload
\* byte j, for every j of 0..L-1 and c of 0..3.
C15_PayloadPlacement ==
    (pc = "concealed" /\ Len(data) >= 1) =>
        \A j \in 0..(Len(data) - 1) : \A c \in 0..3 :
            Cell(outputImg, PayloadCell(sourceImg.W, sourceImg.H, Len(data), j, c)) % 4
                = Chunk(data[j + 1], c)

\* the normalised source value of cell abi
SourceCell(abi) == NormalizedPx(sourceImg.Pix[(abi \div 3) + 1])[(abi % 3) + 1]

C15_Witness ==
    /\ pc = "concealed" /\ Len(data) = 3 /\ enc.step = 5
    /\ \E c \in 0..3 :
          LET abi == PayloadCell(sourceImg.W, sourceImg.H, 3, 2, c)
          IN  Cell(outputImg, abi) # SourceCell(abi)

\* cell abi of the content region lies in the gap of its block, or after the
\* block of the last payload byte (every content cell when there is no byte)
GapCell(w, h, n, abi) ==
    LET off == abi - HeaderLenFor(n) * 4
    IN  \/ n = 0
        \/ n > 0 /\ off % StepFor(w, h, n) >= 4
        \/ n > 0 /\ off \div StepFor(w, h, n) >= n

\* C16: after a successful Conceal every cell of the content region whose
\* offset in its block of step cells is 4 or more, and every cell after the
\* block of the last payload byte, has exactly its normalised source value.
C16_GapUntouched ==
    pc = "concealed" =>
        \A abi \in (HeaderLenFor(Len(data)) * 4)..(NumCells(sourceImg.W, sourceImg.H) - 1) :
            GapCell(sourceImg.W, sourceImg.H, Len(data), abi)
                => Cell(outputImg, abi) = SourceCell(abi)

C16_Witness ==
    /\ pc = "concealed" /\ Len(data) = 2 /\ enc.step = 8
    /\ GapCell(sourceImg.W, sourceImg.H, 2, 8 + 4)
    /\ GapCell(sourceImg.W, sourceImg.H, 2, 8 + 16)
    /\ \E c \in 0..3 : Cell(outputImg, 8 + c) # SourceCell(8 + c)

\* Reveal, run on the output of Conceal, has read the whole header and so has
\* computed its step (328)
RevealStepComputed == dec.from = "steganogram" /\ ~dec.dataNil

\* the step of Conceal is floor(4 * (cap - header_len) / L), whatever index
\* byte was drawn
ConcealStepDetermined ==
    (ConcealWalking /\ Len(data) >= 1)
        => enc.step = StepFor(sourceImg.W, sourceImg.H, Len(data))

\* Reveal's step is Conceal's whenever the length Reveal read is len(data)
RevealStepGivenLength ==
    (RevealStepComputed /\ Len(data) >= 1 /\ dec.clen = ToBig(Len(data)))
        => dec.step = enc.step

\* C17: the step of Conceal is floor(4 * (cap - header_len) / L), a function of
\* W, H and L alone, and Reveal, once it has read the length from the header
\* of Conceal's output, has computed exactly the step Conceal used.
C17_StrideDeterminism ==
    /\ ConcealStepDetermined
    /\ (RevealStepComputed /\ Len(data) >= 1) => dec.step = enc.step

\* the cell Reveal takes the last chunk of the last payload byte from
LastPayloadCell == Len(dec.hdata) * 4 + (BigToInt(dec.clen) - 1) * dec.step + 3

\* Reveal is past the fourth cell of the last payload byte: with a step of 4
\* or more the pass over that cell has stored data[clen-1] (334)
LastByteStored ==
    /\ pc = "reveal" /\ ~dec.dataNil
    /\ BigIsSmall(dec.clen) /\ BigToInt(dec.clen) >= 1
    /\ dec.step >= 4
    /\ DecAbi > LastPayloadCell

\* C18: once Reveal has stored the last payload byte, no later cell is taken
\* into the accumulator dbyte and none changes the header, the length or the
\* payload held, and what is written at the end is the payload held then.
C18_NothingAfterLastByte ==
    [][LastByteStored =>
          /\ dec'.dbyte = dec.dbyte /\ dec'.data = dec.data
          /\ dec'.hdata = dec.hdata /\ dec'.clen = dec.clen /\ dec'.step = dec.step
          /\ (pc' = "revealed" => dec'.out = [len |-> dec.clen, bytes |-> dec.data])]_vars

C18_Witness ==
    /\ LastByteStored /\ dec.from = "steganogram"
    /\ Len(data) = 2 /\ dec.data = data
    /\ DecAbi > LastPayloadCell + 2
    /\ \E abi \in (LastPayloadCell + 1)..(DecAbi - 1) : Cell(dec.img, abi) % 4 # 0

\* the cell Conceal places the last chunk of the last payload byte in
LastConcealCell == Len(enc.hdata) * 4 + (Len(data) - 1) * enc.step + 3

\* C19: whenever Conceal has accepted a non-empty payload, its step is at
\* least 4 and the fourth cell of the last payload byte lies below W*H*3: the
\* blocks of two payload bytes share no cell and every chunk has a cell.
C19_BlocksFit ==
    (ConcealWalking /\ Len(data) >= 1) =>
        /\ Len(data) <= enc.cap - Len(enc.hdata)
        /\ enc.step >= 4
        /\ LastConcealCell < NumCells(sourceImg.W, sourceImg.H)

C19_Witness ==
    /\ pc = "concealed" /\ Len(data) >= 2
    /\ Len(data) = enc.cap - Len(enc.hdata)
    /\ enc.step = 4
    /\ Cell(outputImg, LastConcealCell) % 4 = Chunk(data[Len(data)], 3)

\* the cell Reveal is about to process lies past the header it has read
AtContentCell == pc = "reveal" /\ ~dec.dataNil /\ ~InHeader(DecAbi, dec.hdata)

\* C20: for every image given to Reveal, the step computed from the length
\* read is not 0 whenever a cell past the header is processed, so the
\* division and the remainder by step (282-283) never divide by zero.
C20_StepNonZero ==
    /\ AtContentCell => dec.step # 0
    /\ dec.err # "panic"

====
